---- MODULE Spec2Model ----
(***************************************************************************)
(* A model of the Redis cache adapter of src/redis.go.                     *)
(*                                                                         *)
(* The adapter keeps no cache contents: the state is the remote store, the *)
(* position of every caller inside the operation it is running (Pull and   *)
(* Remember issue two store commands, every other operation one), and what *)
(* each caller got back.  A store command either succeeds ("ok"), fails    *)
(* before it reaches the store ("lost": the error is returned and nothing  *)
(* changed) or fails after the store applied it ("noreply": the error is   *)
(* returned although the store changed).                                   *)
(*                                                                         *)
(* Go strings are sequences of one-character strings, so that formatting   *)
(* and parsing are computed character by character; physical keys are      *)
(* TLA+ strings, concatenated with \o as r.Prefix+key is in the source.    *)
(***************************************************************************)
EXTENDS Integers, Sequences, FiniteSets, TLC

(***************************************************************************)
(* Go values (interface{}): a tag and a payload.                           *)
(***************************************************************************)
S(s) == [t |-> "string", v |-> s]
I(n) == [t |-> "int", v |-> n]
B(b) == [t |-> "bool", v |-> b]
Nil == [t |-> "nil", v |-> 0]
\* a func() interface{} whose invocation returns the Go value v
F(v) == [t |-> "func", v |-> v]
\* the value a caller is left with when the call panicked
Panic == [t |-> "panic", v |-> 0]

alice == <<"a", "l", "i", "c", "e">>
bob == <<"b", "o", "b">>

Digits == <<"0", "1", "2", "3", "4", "5", "6", "7", "8", "9">>

RECURSIVE UItoa(_)
UItoa(n) == IF n < 10 THEN <<Digits[n + 1]>>
            ELSE UItoa(n \div 10) \o <<Digits[(n % 10) + 1]>>

\* the decimal form of an int, as the store client writes it
Itoa(n) == IF n < 0 THEN <<"-">> \o UItoa(0 - n) ELSE UItoa(n)

(***************************************************************************)
(* What the store client sends for the value argument of SET and SETNX     *)
(* (r.Redis.Set(ctx, key, value, seconds)): a string as it is, an int in   *)
(* decimal, a bool as 1 or 0, nil as the empty string.  The store holds    *)
(* strings only, which is why GetBool and GetInt parse what Get returns.   *)
(***************************************************************************)
Encode(v) == CASE v.t = "string" -> v.v
               [] v.t = "int" -> Itoa(v.v)
               [] v.t = "bool" -> IF v.v THEN <<"1">> ELSE <<"0">>
               [] v.t = "nil" -> <<>>

(***************************************************************************)
(* Adapters and keys.                                                      *)
(***************************************************************************)
\* the concurrent callers; the sequential specification runs caller 1 alone
NCallers == 2
Callers == 1..NCallers
Adapters == {"a1", "a2"}

\* Config.Prefix of each adapter, copied into Redis.Prefix by New
Prefix == [a1 |-> "app:", a2 |-> "app:u"]

\* mutant of PhysKey: the prefix is dropped
PhysKeyNoPrefix(a, k) == k

\* the physical key of a logical key: r.Prefix+key
PhysKey(a, k) == Prefix[a] \o k

\* the adapter/key pairs of the one entry "app:user:1"
Targets == {<<"a1", "user:1">>, <<"a2", "ser:1">>}

\* with a second entry, "app:x", which lies outside the prefix of a2
KeyTargets == Targets \cup {<<"a1", "x">>}

PhysKeys == {PhysKey(t[1], t[2]) : t \in KeyTargets}

\* expiry durations in seconds; zero means no expiry
TTLs == {0, 60}

\* outcomes of a store command
Outcomes == {"ok", "lost", "noreply"}
ReadOutcomes == {"ok", "lost"}
Applied(o) == o \in {"ok", "noreply"}

VARIABLES
    store,    \* the remote store: physical key -> [val, ttl], present keys only
    pc,       \* per caller: "idle", "pull_del", "remember_put" or "panic"
    loc,      \* per caller: the locals of the operation in progress
    ret,      \* per caller: what its last call returned, none while one runs
    invoked,  \* per caller: producer/callback invocations of its current call
    sent,     \* per caller: the store commands its current or last call issued
    last      \* history: per physical key, the last command that took effect

vars == <<store, pc, loc, ret, invoked, sent, last>>

NoLoc == [op |-> "none", pk |-> "", arg |-> Nil, val |-> Nil, err |-> "none", ttl |-> 0]
\* raced: the second command of a Pull or Remember found another entry than
\* its first command had seen
NoRet == [op |-> "none", pk |-> "", val |-> Nil, err |-> FALSE, raced |-> FALSE]
Ret(op, pk, val, err) == [NoRet EXCEPT !.op = op, !.pk = pk, !.val = val, !.err = err]

\* kind: "none" (never written), "set", "del", "flush" or "expire"; how: for a
\* set "put" (Put, Forever), "add" (Add) or "compute" (Remember and
\* RememberForever), for a del "Pull" or "Forget", for a flush the adapter
\* that issued it; val: the Go value given to the write (kept by the del or
\* expiry that destroyed it); seen: whether a GET has returned the entry
NoHist == [kind |-> "none", how |-> "-", val |-> Nil, ttl |-> 0, seen |-> FALSE]

Init ==
    /\ store = [p \in {} |-> 0]
    /\ pc = [c \in Callers |-> "idle"]
    /\ loc = [c \in Callers |-> NoLoc]
    /\ ret = [c \in Callers |-> NoRet]
    /\ invoked = [c \in Callers |-> 0]
    /\ sent = [c \in Callers |-> <<>>]
    /\ last = [p \in PhysKeys |-> NoHist]

(***************************************************************************)
(* The store's commands: the reply and the store after the command.        *)
(***************************************************************************)
\* GET: the value and no error ("none"), or the empty string and an error:
\* redis.Nil ("nil") for a missing key, any other ("fail") for a failed command
RedisGet(pk, o) ==
    IF o # "ok" THEN [val |-> <<>>, err |-> "fail"]
    ELSE IF pk \in DOMAIN store THEN [val |-> store[pk].val, err |-> "none"]
    ELSE [val |-> <<>>, err |-> "nil"]

\* SET key value [EX seconds]
RedisSet(pk, v, ttl, o) ==
    IF Applied(o)
    THEN [p \in DOMAIN store \cup {pk} |->
            IF p = pk THEN [val |-> Encode(v), ttl |-> ttl] ELSE store[p]]
    ELSE store

\* mutant of RedisSetNX: SET is sent in place of SETNX
RedisSetNXOverwrite(pk, v, ttl, o) ==
    IF Applied(o)
    THEN [p \in DOMAIN store \cup {pk} |->
            IF p = pk THEN [val |-> Encode(v), ttl |-> ttl] ELSE store[p]]
    ELSE store

\* SETNX: SET only when the key is absent
RedisSetNX(pk, v, ttl, o) ==
    IF Applied(o) /\ pk \notin DOMAIN store
    THEN [p \in DOMAIN store \cup {pk} |->
            IF p = pk THEN [val |-> Encode(v), ttl |-> ttl] ELSE store[p]]
    ELSE store

\* the reply of SETNX: whether the key was set
RedisSetNXReply(pk, o) == o = "ok" /\ pk \notin DOMAIN store

\* EXISTS: the number of the keys that exist
RedisExists(pk) == IF pk \in DOMAIN store THEN 1 ELSE 0

\* DEL
RedisDel(pk, o) ==
    IF Applied(o) THEN [p \in DOMAIN store \ {pk} |-> store[p]] ELSE store

\* FLUSHALL
RedisFlushAll(o) == IF Applied(o) THEN [p \in {} |-> 0] ELSE store

(***************************************************************************)
(* The history of each physical key, kept beside the store.                *)
(***************************************************************************)
HistSet(how, pk, v, ttl, took) ==
    IF took
    THEN [last EXCEPT ![pk] = [kind |-> "set", how |-> how, val |-> v,
                               ttl |-> ttl, seen |-> FALSE]]
    ELSE last

\* a delete keeps the value it destroyed and whether a read had returned it
HistDel(how, pk, took) ==
    IF took
    THEN [last EXCEPT ![pk] =
            IF @.kind = "set" THEN [@ EXCEPT !.kind = "del", !.how = how, !.ttl = 0]
            ELSE [NoHist EXCEPT !.kind = "del", !.how = how]]
    ELSE last

HistFlush(a, took) ==
    IF took
    THEN [p \in PhysKeys |->
            IF last[p].kind = "none" THEN last[p]
            ELSE [NoHist EXCEPT !.kind = "flush", !.how = a]]
    ELSE last

\* a GET that returned the value of pk
HistSeen(pk, hit) ==
    IF hit THEN [last EXCEPT ![pk].seen = TRUE] ELSE last

(***************************************************************************)
(* Get: lines 54-67.                                                       *)
(***************************************************************************)
\* mutant of GetValue: the test of err is inverted
GetValueSwapped(reply, def) ==
    IF reply.err = "none"
    THEN IF def.t = "func" THEN def.v ELSE def
    ELSE S(reply.val)

\* mutant of GetValue: a producer default is returned, not invoked
GetValueLiteral(reply, def) ==
    IF reply.err # "none" THEN def ELSE S(reply.val)

\* what Get returns for the reply of GET and the default
GetValue(reply, def) ==
    IF reply.err # "none"
    THEN IF def.t = "func" THEN def.v ELSE def
    ELSE S(reply.val)

\* how often Get invokes the default
GetCalls(reply, def) == IF reply.err # "none" /\ def.t = "func" THEN 1 ELSE 0

\* mutant of Get: the fallback value is written back to the store
GetWriteBack(c, a, k, def, o) ==
    /\ pc[c] = "idle"
    /\ LET pk == PhysKey(a, k)
           reply == RedisGet(pk, o)
       IN /\ ret' = [ret EXCEPT ![c] = Ret("Get", pk, GetValue(reply, def), FALSE)]
          /\ invoked' = [invoked EXCEPT ![c] = GetCalls(reply, def)]
          /\ last' = HistSeen(pk, reply.err = "none")
          /\ store' = IF reply.err # "none"
                      THEN RedisSet(pk, GetValue(reply, def), 0, "ok")
                      ELSE store
    /\ sent' = [sent EXCEPT ![c] = <<"GET">>]
    /\ UNCHANGED <<pc, loc>>

Get(c, a, k, def, o) ==
    /\ pc[c] = "idle"
    /\ LET pk == PhysKey(a, k)
           reply == RedisGet(pk, o)
       IN /\ ret' = [ret EXCEPT ![c] = Ret("Get", pk, GetValue(reply, def), FALSE)]
          /\ invoked' = [invoked EXCEPT ![c] = GetCalls(reply, def)]
          /\ last' = HistSeen(pk, reply.err = "none")
    /\ UNCHANGED <<store, pc, loc>>
    /\ sent' = [sent EXCEPT ![c] = <<"GET">>]

(***************************************************************************)
(* Put: lines 122-130.                                                     *)
(***************************************************************************)
Put(c, a, k, v, ttl, o) ==
    /\ pc[c] = "idle"
    /\ LET pk == PhysKey(a, k)
       IN /\ store' = RedisSet(pk, v, ttl, o)
          /\ ret' = [ret EXCEPT ![c] = Ret("Put", pk, Nil, o # "ok")]
          /\ last' = HistSet("put", pk, v, ttl, Applied(o))
    /\ invoked' = [invoked EXCEPT ![c] = 0]
    /\ UNCHANGED <<pc, loc>>
    /\ sent' = [sent EXCEPT ![c] = <<"SET">>]

(***************************************************************************)
(* GetBool, GetInt, GetString: lines 69-107.  The []byte case of GetBool   *)
(* is left out: Get returns a string or the default, never a []byte.       *)
(***************************************************************************)
\* the value of a decimal digit, -1 for any other character
DigitVal(ch) ==
    IF \E i \in 1..10 : Digits[i] = ch
    THEN (CHOOSE i \in 1..10 : Digits[i] = ch) - 1
    ELSE -1

RECURSIVE ParseDigits(_, _)
\* the digits of s read left to right onto n; -1 when one is no digit
ParseDigits(s, n) ==
    IF s = <<>> THEN n
    ELSE IF DigitVal(Head(s)) < 0 THEN -1
    ELSE ParseDigits(Tail(s), n * 10 + DigitVal(Head(s)))

\* strconv.Atoi: an optional sign, then one decimal digit or more
Atoi(s) ==
    LET signed == s # <<>> /\ Head(s) \in {"-", "+"}
        body == IF signed THEN Tail(s) ELSE s
        n == ParseDigits(body, 0)
    IN IF body = <<>> \/ n < 0 THEN [ok |-> FALSE, n |-> 0]
       ELSE [ok |-> TRUE, n |-> IF signed /\ Head(s) = "-" THEN 0 - n ELSE n]

strTrue == <<"t", "r", "u", "e">>
strFalse == <<"f", "a", "l", "s", "e">>

\* mutant of BoolOf: only the words are taken for booleans, not "1" and "0"
BoolOfWordsOnly(res) ==
    IF res.t = "string" /\ res.v = strTrue THEN B(TRUE)
    ELSE IF res.t = "string" /\ res.v = strFalse THEN B(FALSE)
    ELSE IF res.t = "bool" THEN res
    ELSE Panic

\* lines 71-88: the switch over the type of res, then res.(bool)
BoolOf(res) ==
    IF res.t = "string" /\ res.v \in {<<"1">>, strTrue} THEN B(TRUE)
    ELSE IF res.t = "string" /\ res.v \in {<<"0">>, strFalse} THEN B(FALSE)
    ELSE IF res.t = "bool" THEN res
    ELSE Panic

\* mutant of IntOf: zero is returned for a string that does not parse
IntOfZeroOnError(res, def) ==
    IF res.t = "string"
    THEN IF Atoi(res.v).ok THEN I(Atoi(res.v).n) ELSE I(0)
    ELSE IF res.t = "int" THEN res
    ELSE Panic

\* mutant of IntOf: a string that does not parse falls through to res.(int)
IntOfAssertOnError(res, def) ==
    IF res.t = "string" /\ Atoi(res.v).ok THEN I(Atoi(res.v).n)
    ELSE IF res.t = "int" THEN res
    ELSE Panic

\* lines 93-102: a string is parsed, anything else asserted to int
IntOf(res, def) ==
    IF res.t = "string"
    THEN IF Atoi(res.v).ok THEN I(Atoi(res.v).n) ELSE def
    ELSE IF res.t = "int" THEN res
    ELSE Panic

\* line 106: res.(string)
StringOf(res) == IF res.t = "string" THEN res ELSE Panic

\* a typed accessor: Get, then the conversion; a failed assertion panics
Typed(c, op, pk, def, o, val) ==
    /\ pc[c] = "idle"
    /\ ret' = [ret EXCEPT ![c] = Ret(op, pk, val, FALSE)]
    /\ pc' = [pc EXCEPT ![c] = IF val = Panic THEN "panic" ELSE "idle"]
    /\ invoked' = [invoked EXCEPT ![c] = GetCalls(RedisGet(pk, o), def)]
    /\ last' = HistSeen(pk, RedisGet(pk, o).err = "none")
    /\ UNCHANGED <<store, loc>>
    /\ sent' = [sent EXCEPT ![c] = <<"GET">>]

GetBool(c, a, k, def, o) ==
    Typed(c, "GetBool", PhysKey(a, k), B(def), o,
          BoolOf(GetValue(RedisGet(PhysKey(a, k), o), B(def))))

GetInt(c, a, k, def, o) ==
    Typed(c, "GetInt", PhysKey(a, k), I(def), o,
          IntOf(GetValue(RedisGet(PhysKey(a, k), o), I(def)), I(def)))

GetString(c, a, k, def, o) ==
    Typed(c, "GetString", PhysKey(a, k), S(def), o,
          StringOf(GetValue(RedisGet(PhysKey(a, k), o), S(def))))

(***************************************************************************)
(* Has: lines 110-119.                                                     *)
(***************************************************************************)
\* mutant of HasValue: the test of the count is inverted
HasValueInverted(pk, o) == ~(o # "ok" \/ RedisExists(pk) # 0)

HasValue(pk, o) == ~(o # "ok" \/ RedisExists(pk) = 0)

Has(c, a, k, o) ==
    /\ pc[c] = "idle"
    /\ ret' = [ret EXCEPT ![c] = Ret("Has", PhysKey(a, k), B(HasValue(PhysKey(a, k), o)), FALSE)]
    /\ invoked' = [invoked EXCEPT ![c] = 0]
    /\ UNCHANGED <<store, pc, loc, last>>
    /\ sent' = [sent EXCEPT ![c] = <<"EXISTS">>]

(***************************************************************************)
(* Pull: lines 133-143.  GET and DEL are two commands; other callers and   *)
(* the store's expiry can act between them.                                *)
(***************************************************************************)
\* mutant of PullGet: Pull returns the default before DEL when GET failed
PullGetEarlyReturn(c, a, k, def, o) ==
    /\ pc[c] = "idle"
    /\ LET pk == PhysKey(a, k)
           reply == RedisGet(pk, o)
       IN /\ loc' = [loc EXCEPT ![c] =
                       IF reply.err # "none" THEN NoLoc
                       ELSE [op |-> "Pull", pk |-> pk, arg |-> def,
                             val |-> S(reply.val), err |-> reply.err, ttl |-> 0]]
          /\ last' = HistSeen(pk, reply.err = "none")
          /\ pc' = [pc EXCEPT ![c] = IF reply.err # "none" THEN "idle" ELSE "pull_del"]
          /\ ret' = [ret EXCEPT ![c] = IF reply.err # "none"
                                       THEN Ret("Pull", pk, def, FALSE) ELSE NoRet]
    /\ invoked' = [invoked EXCEPT ![c] = 0]
    /\ sent' = [sent EXCEPT ![c] = <<"GET">>]
    /\ UNCHANGED store

PullGet(c, a, k, def, o) ==
    /\ pc[c] = "idle"
    /\ LET pk == PhysKey(a, k)
           reply == RedisGet(pk, o)
       IN /\ loc' = [loc EXCEPT ![c] = [op |-> "Pull", pk |-> pk, arg |-> def,
                                        val |-> S(reply.val), err |-> reply.err,
                                        ttl |-> 0]]
          /\ last' = HistSeen(pk, reply.err = "none")
    /\ pc' = [pc EXCEPT ![c] = "pull_del"]
    /\ ret' = [ret EXCEPT ![c] = NoRet]
    /\ invoked' = [invoked EXCEPT ![c] = 0]
    /\ UNCHANGED store
    /\ sent' = [sent EXCEPT ![c] = <<"GET">>]

\* mutant of PullValue: the test of err is inverted
PullValueSwapped(l) == IF l.err = "none" THEN l.arg ELSE l.val

\* lines 138-142: the default as it is when GET failed, else the value
PullValue(l) == IF l.err # "none" THEN l.arg ELSE l.val

\* mutant of PullDel: the key is deleted only while it is as GET saw it
PullDelIfUnchanged(c, o) ==
    /\ pc[c] = "pull_del"
    /\ LET same == /\ (RedisGet(loc[c].pk, "ok").err = "none") = (loc[c].err = "none")
                   /\ S(RedisGet(loc[c].pk, "ok").val) = loc[c].val
       IN /\ store' = IF same THEN RedisDel(loc[c].pk, o) ELSE store
          /\ last' = HistDel("Pull", loc[c].pk, same /\ Applied(o))
          /\ ret' = [ret EXCEPT ![c] = [Ret("Pull", loc[c].pk, PullValue(loc[c]), FALSE)
                                        EXCEPT !.raced = ~same]]
    /\ pc' = [pc EXCEPT ![c] = "idle"]
    /\ loc' = [loc EXCEPT ![c] = NoLoc]
    /\ UNCHANGED invoked
    /\ sent' = [sent EXCEPT ![c] = Append(@, "DEL")]

PullDel(c, o) ==
    /\ pc[c] = "pull_del"
    /\ store' = RedisDel(loc[c].pk, o)
    /\ last' = HistDel("Pull", loc[c].pk, Applied(o))
    /\ ret' = [ret EXCEPT ![c] = [Ret("Pull", loc[c].pk, PullValue(loc[c]), FALSE)
                                  EXCEPT !.raced = (RedisGet(loc[c].pk, "ok").err = "none") # (loc[c].err = "none")
                                                   \/ S(RedisGet(loc[c].pk, "ok").val) # loc[c].val]]
    /\ pc' = [pc EXCEPT ![c] = "idle"]
    /\ loc' = [loc EXCEPT ![c] = NoLoc]
    /\ UNCHANGED invoked
    /\ sent' = [sent EXCEPT ![c] = Append(@, "DEL")]

(***************************************************************************)
(* Add: lines 146-154.                                                     *)
(***************************************************************************)
\* mutant of AddValue: true is returned whenever SETNX returned no error
AddValueNoError(pk, o) == o = "ok"

\* mutant of AddValue: the error of SETNX is not looked at
AddValueIgnoringError(pk, o) == pk \notin DOMAIN store

AddValue(pk, o) == IF o # "ok" THEN FALSE ELSE RedisSetNXReply(pk, o)

Add(c, a, k, v, ttl, o) ==
    /\ pc[c] = "idle"
    /\ LET pk == PhysKey(a, k)
       IN /\ store' = RedisSetNX(pk, v, ttl, o)
          /\ last' = HistSet("add", pk, v, ttl, Applied(o) /\ pk \notin DOMAIN store)
          /\ ret' = [ret EXCEPT ![c] = Ret("Add", pk, B(AddValue(pk, o)), FALSE)]
    /\ invoked' = [invoked EXCEPT ![c] = 0]
    /\ UNCHANGED <<pc, loc>>
    /\ sent' = [sent EXCEPT ![c] = <<"SETNX">>]

(***************************************************************************)
(* Remember and RememberForever: lines 157-188.  Get(key, nil), then on a  *)
(* nil result the callback and Put; the callback runs with the GET.        *)
(***************************************************************************)
\* mutant of RememberStart: an empty cached string is taken for a miss
RememberStartEmptyIsMiss(c, op, pk, ttl, callback, o) ==
    /\ pc[c] = "idle"
    /\ LET val == GetValue(RedisGet(pk, o), Nil)
       IN IF val # Nil /\ val # S(<<>>)
          THEN /\ ret' = [ret EXCEPT ![c] = Ret(op, pk, val, FALSE)]
               /\ invoked' = [invoked EXCEPT ![c] = 0]
               /\ UNCHANGED <<pc, loc>>
          ELSE /\ loc' = [loc EXCEPT ![c] = [op |-> op, pk |-> pk, arg |-> Nil,
                                             val |-> callback.v,
                                             err |-> RedisGet(pk, o).err,
                                             ttl |-> ttl]]
               /\ invoked' = [invoked EXCEPT ![c] = 1]
               /\ pc' = [pc EXCEPT ![c] = "remember_put"]
               /\ ret' = [ret EXCEPT ![c] = NoRet]
    /\ last' = HistSeen(pk, RedisGet(pk, o).err = "none")
    /\ sent' = [sent EXCEPT ![c] = <<"GET">>]
    /\ UNCHANGED store

\* mutant of RememberStart: the cached value is not looked at
RememberStartAlways(c, op, pk, ttl, callback, o) ==
    /\ pc[c] = "idle"
    /\ loc' = [loc EXCEPT ![c] = [op |-> op, pk |-> pk, arg |-> Nil,
                                  val |-> callback.v,
                                  err |-> RedisGet(pk, o).err,
                                  ttl |-> ttl]]
    /\ invoked' = [invoked EXCEPT ![c] = 1]
    /\ pc' = [pc EXCEPT ![c] = "remember_put"]
    /\ ret' = [ret EXCEPT ![c] = NoRet]
    /\ last' = HistSeen(pk, RedisGet(pk, o).err = "none")
    /\ UNCHANGED store
    /\ sent' = [sent EXCEPT ![c] = <<"GET">>]

\* lines 158-164 (175-181): the cached value, or the callback's result
RememberStart(c, op, pk, ttl, callback, o) ==
    /\ pc[c] = "idle"
    /\ LET val == GetValue(RedisGet(pk, o), Nil)
       IN IF val # Nil
          THEN /\ ret' = [ret EXCEPT ![c] = Ret(op, pk, val, FALSE)]
               /\ invoked' = [invoked EXCEPT ![c] = 0]
               /\ UNCHANGED <<pc, loc>>
          ELSE /\ loc' = [loc EXCEPT ![c] = [op |-> op, pk |-> pk, arg |-> Nil,
                                             val |-> callback.v,
                                             err |-> RedisGet(pk, o).err,
                                             ttl |-> ttl]]
               /\ invoked' = [invoked EXCEPT ![c] = 1]
               /\ pc' = [pc EXCEPT ![c] = "remember_put"]
               /\ ret' = [ret EXCEPT ![c] = NoRet]
    /\ last' = HistSeen(pk, RedisGet(pk, o).err = "none")
    /\ UNCHANGED store
    /\ sent' = [sent EXCEPT ![c] = <<"GET">>]

Remember(c, a, k, ttl, callback, o) ==
    RememberStart(c, "Remember", PhysKey(a, k), ttl, callback, o)

RememberForever(c, a, k, callback, o) ==
    RememberStart(c, "RememberForever", PhysKey(a, k), 0, callback, o)

\* lines 166-170 (183-187): (nil, err) when Put failed, else (val, nil)
RememberValue(l, o) == IF o # "ok" THEN Nil ELSE l.val

\* mutant of RememberPut: the result is stored only while the key is absent
RememberPutIfAbsent(c, o) ==
    /\ pc[c] = "remember_put"
    /\ store' = RedisSetNX(loc[c].pk, loc[c].val, loc[c].ttl, o)
    /\ last' = HistSet("compute", loc[c].pk, loc[c].val, loc[c].ttl,
                       Applied(o) /\ loc[c].pk \notin DOMAIN store)
    /\ ret' = [ret EXCEPT ![c] = [Ret(loc[c].op, loc[c].pk, RememberValue(loc[c], o), o # "ok")
                                  EXCEPT !.raced = loc[c].pk \in DOMAIN store]]
    /\ pc' = [pc EXCEPT ![c] = "idle"]
    /\ loc' = [loc EXCEPT ![c] = NoLoc]
    /\ UNCHANGED invoked
    /\ sent' = [sent EXCEPT ![c] = Append(@, "SETNX")]

RememberPut(c, o) ==
    /\ pc[c] = "remember_put"
    /\ store' = RedisSet(loc[c].pk, loc[c].val, loc[c].ttl, o)
    /\ last' = HistSet("compute", loc[c].pk, loc[c].val, loc[c].ttl, Applied(o))
    /\ ret' = [ret EXCEPT ![c] = [Ret(loc[c].op, loc[c].pk, RememberValue(loc[c], o), o # "ok")
                                  EXCEPT !.raced = loc[c].pk \in DOMAIN store]]
    /\ pc' = [pc EXCEPT ![c] = "idle"]
    /\ loc' = [loc EXCEPT ![c] = NoLoc]
    /\ UNCHANGED invoked
    /\ sent' = [sent EXCEPT ![c] = Append(@, "SET")]

(***************************************************************************)
(* Forever, Forget, Flush: lines 191-221.                                  *)
(***************************************************************************)
\* mutant of Forever: the entry is stored with an expiry
ForeverWithExpiry(c, a, k, v, o) ==
    /\ pc[c] = "idle"
    /\ LET pk == PhysKey(a, k)
       IN /\ store' = RedisSet(pk, v, 60, o)
          /\ last' = HistSet("put", pk, v, 60, Applied(o))
          /\ ret' = [ret EXCEPT ![c] = Ret("Forever", pk, B(o = "ok"), FALSE)]
    /\ invoked' = [invoked EXCEPT ![c] = 0]
    /\ sent' = [sent EXCEPT ![c] = <<"SET">>]
    /\ UNCHANGED <<pc, loc>>

Forever(c, a, k, v, o) ==
    /\ pc[c] = "idle"
    /\ LET pk == PhysKey(a, k)
       IN /\ store' = RedisSet(pk, v, 0, o)
          /\ last' = HistSet("put", pk, v, 0, Applied(o))
          /\ ret' = [ret EXCEPT ![c] = Ret("Forever", pk, B(o = "ok"), FALSE)]
    /\ invoked' = [invoked EXCEPT ![c] = 0]
    /\ UNCHANGED <<pc, loc>>
    /\ sent' = [sent EXCEPT ![c] = <<"SET">>]

\* mutant of Forget: every key under the adapter's prefix is deleted
ForgetByPrefix(c, a, k, o) ==
    /\ pc[c] = "idle"
    /\ LET pk == PhysKey(a, k)
           own == {PhysKey(t[1], t[2]) : t \in {u \in KeyTargets : u[1] = a}}
       IN /\ store' = IF Applied(o) THEN [p \in DOMAIN store \ own |-> store[p]]
                      ELSE store
          /\ last' = HistDel("Forget", pk, Applied(o))
          /\ ret' = [ret EXCEPT ![c] = Ret("Forget", pk, B(o = "ok"), FALSE)]
    /\ invoked' = [invoked EXCEPT ![c] = 0]
    /\ sent' = [sent EXCEPT ![c] = <<"DEL">>]
    /\ UNCHANGED <<pc, loc>>

Forget(c, a, k, o) ==
    /\ pc[c] = "idle"
    /\ LET pk == PhysKey(a, k)
       IN /\ store' = RedisDel(pk, o)
          /\ last' = HistDel("Forget", pk, Applied(o))
          /\ ret' = [ret EXCEPT ![c] = Ret("Forget", pk, B(o = "ok"), FALSE)]
    /\ invoked' = [invoked EXCEPT ![c] = 0]
    /\ UNCHANGED <<pc, loc>>
    /\ sent' = [sent EXCEPT ![c] = <<"DEL">>]

\* mutant of Flush: only the keys under the adapter's own prefix are removed
FlushOwnPrefix(c, a, o) ==
    /\ pc[c] = "idle"
    /\ LET own == {PhysKey(t[1], t[2]) : t \in {u \in KeyTargets : u[1] = a}}
       IN /\ store' = IF Applied(o) THEN [p \in DOMAIN store \ own |-> store[p]]
                      ELSE store
          /\ last' = IF Applied(o)
                     THEN [p \in PhysKeys |->
                             IF p \in own /\ last[p].kind # "none"
                             THEN [NoHist EXCEPT !.kind = "flush", !.how = a]
                             ELSE last[p]]
                     ELSE last
    /\ ret' = [ret EXCEPT ![c] = Ret("Flush", "", B(o = "ok"), FALSE)]
    /\ invoked' = [invoked EXCEPT ![c] = 0]
    /\ UNCHANGED <<pc, loc>>
    /\ sent' = [sent EXCEPT ![c] = <<"FLUSHALL">>]

Flush(c, a, o) ==
    /\ pc[c] = "idle"
    /\ store' = RedisFlushAll(o)
    /\ last' = HistFlush(a, Applied(o))
    /\ ret' = [ret EXCEPT ![c] = Ret("Flush", "", B(o = "ok"), FALSE)]
    /\ invoked' = [invoked EXCEPT ![c] = 0]
    /\ UNCHANGED <<pc, loc>>
    /\ sent' = [sent EXCEPT ![c] = <<"FLUSHALL">>]

(***************************************************************************)
(* The store expires an entry that has an expiry.                          *)
(***************************************************************************)
Expire(pk) ==
    /\ pk \in DOMAIN store
    /\ store[pk].ttl > 0
    /\ store' = [p \in DOMAIN store \ {pk} |-> store[p]]
    /\ last' = [last EXCEPT ![pk] = [@ EXCEPT !.kind = "expire", !.how = "-", !.ttl = 0]]
    /\ UNCHANGED <<pc, loc, ret, invoked, sent>>

(***************************************************************************)
(* The inputs of the calls.                                                *)
(***************************************************************************)
Vals == {S(alice), S(bob), I(7)}
Defs == {S(bob), Nil, F(S(bob))}
Callbacks == {F(S(alice)), F(I(7)), F(Nil)}

\* one caller on one entry, every operation and every outcome
Next ==
    \/ \E t \in Targets :
        \/ \E d \in Defs, o \in ReadOutcomes : Get(1, t[1], t[2], d, o)
        \/ \E o \in ReadOutcomes : GetBool(1, t[1], t[2], FALSE, o)
        \/ \E o \in ReadOutcomes : GetInt(1, t[1], t[2], 7, o)
        \/ \E o \in ReadOutcomes : GetString(1, t[1], t[2], bob, o)
        \/ \E o \in ReadOutcomes : Has(1, t[1], t[2], o)
        \/ \E v \in Vals, ttl \in TTLs, o \in Outcomes : Put(1, t[1], t[2], v, ttl, o)
        \/ \E d \in Defs, o \in ReadOutcomes : PullGet(1, t[1], t[2], d, o)
        \/ \E v \in Vals, ttl \in TTLs, o \in Outcomes : Add(1, t[1], t[2], v, ttl, o)
        \/ \E f \in Callbacks, ttl \in TTLs, o \in ReadOutcomes :
               Remember(1, t[1], t[2], ttl, f, o)
        \/ \E f \in Callbacks, o \in ReadOutcomes : RememberForever(1, t[1], t[2], f, o)
        \/ \E v \in Vals, o \in Outcomes : Forever(1, t[1], t[2], v, o)
        \/ \E o \in Outcomes : Forget(1, t[1], t[2], o)
    \/ \E o \in Outcomes : PullDel(1, o)
    \/ \E o \in Outcomes : RememberPut(1, o)
    \/ \E a \in Adapters, o \in Outcomes : Flush(1, a, o)
    \/ \E pk \in PhysKeys : Expire(pk)

Spec == Init /\ [][Next]_vars

\* the inputs of the concurrent callers
ConcVals == {S(bob)}
ConcDefs == {Nil}
ConcCallbacks == {F(S(alice)), F(I(7))}

\* concurrent callers on one entry, every store command succeeding
NextConc ==
    \E c \in Callers :
        \/ \E t \in Targets :
            \/ \E f \in ConcCallbacks : Remember(c, t[1], t[2], 60, f, "ok")
            \/ \E f \in ConcCallbacks : RememberForever(c, t[1], t[2], f, "ok")
            \/ \E d \in ConcDefs : PullGet(c, t[1], t[2], d, "ok")
            \/ \E v \in ConcVals : Put(c, t[1], t[2], v, 0, "ok")
            \/ \E v \in ConcVals : Add(c, t[1], t[2], v, 0, "ok")
        \/ RememberPut(c, "ok")
        \/ PullDel(c, "ok")

SpecConc == Init /\ [][NextConc]_vars

\* the inputs of the caller that works on two entries
KeyVals == {S(alice)}
KeyCallbacks == {F(I(7))}

\* one caller on two entries through two adapters
NextKeys ==
    \/ \E t \in KeyTargets :
        \/ \E v \in KeyVals, ttl \in TTLs : Put(1, t[1], t[2], v, ttl, "ok")
        \/ \E v \in KeyVals : Add(1, t[1], t[2], v, 0, "ok")
        \/ \E v \in KeyVals : Forever(1, t[1], t[2], v, "ok")
        \/ \E f \in KeyCallbacks : Remember(1, t[1], t[2], 60, f, "ok")
        \/ \E f \in KeyCallbacks : RememberForever(1, t[1], t[2], f, "ok")
        \/ PullGet(1, t[1], t[2], Nil, "ok")
        \/ Forget(1, t[1], t[2], "ok")
        \/ \E o \in ReadOutcomes : Has(1, t[1], t[2], o)
        \/ Get(1, t[1], t[2], Nil, "ok")
    \/ RememberPut(1, "ok")
    \/ PullDel(1, "ok")
    \/ \E a \in Adapters, o \in Outcomes : Flush(1, a, o)
    \/ \E pk \in PhysKeys : Expire(pk)

SpecKeys == Init /\ [][NextKeys]_vars

\* the values, and the defaults of the typed accessors, of the caller that
\* reads one entry through GetBool, GetInt and GetString
TypedVals == {S(strTrue), S(<<"1">>), S(strFalse), S(<<"0">>), S(<<"1", "2">>),
              S(<<"-", "5">>), S(<<"x", "1">>), S(alice), Nil, B(TRUE), I(7)}
BoolDefs == {TRUE, FALSE}
IntDefs == {7, 0}
StrDefs == {bob, <<>>}

\* one caller on one entry, read through the typed accessors
NextTyped ==
    \E t \in Targets :
        \/ \E v \in TypedVals : Put(1, t[1], t[2], v, 0, "ok")
        \/ Forget(1, t[1], t[2], "ok")
        \/ \E d \in BoolDefs, o \in ReadOutcomes : GetBool(1, t[1], t[2], d, o)
        \/ \E d \in IntDefs, o \in ReadOutcomes : GetInt(1, t[1], t[2], d, o)
        \/ \E d \in StrDefs, o \in ReadOutcomes : GetString(1, t[1], t[2], d, o)

SpecTyped == Init /\ [][NextTyped]_vars

\* concurrent callers that only Add, on two entries, every SETNX succeeding
\* and nothing deleting or expiring an entry
NextAdd ==
    \E c \in Callers, t \in KeyTargets, v \in Vals :
        Add(c, t[1], t[2], v, 0, "ok")

SpecAdd == Init /\ [][NextAdd]_vars

(***************************************************************************)
(* The claims.  Each is a property of the steps: a step of an operation    *)
(* is recognised by the operation's own action, and what the entry went    *)
(* through before the step is read from the history.  PK(t) is the         *)
(* physical key of a target; Stored(v) is what a read returns for an entry *)
(* written with the Go value v.                                            *)
(***************************************************************************)
PK(t) == PhysKey(t[1], t[2])
Stored(v) == S(Encode(v))
WrittenBy(pk, how) == last[pk].kind = "set" /\ last[pk].how = how

\* C1 as stated: read-after-write.  A Get that succeeds on an entry whose last
\* effective command was a Put of v returns v.
C1_ReadAfterWrite_AsStated ==
    [][\A c \in Callers, t \in Targets, d \in Defs :
          (/\ ret'[c].op = "Get"
           /\ WrittenBy(PK(t), "put")
           /\ Get(c, t[1], t[2], d, "ok"))
          => ret'[c].val = last[PK(t)].val]_vars

\* C1 amended: such a Get returns the string the store holds for v, which is
\* v itself when v is a string and the decimal form of v when v is an int;
\* it invokes no producer and leaves the store alone.
C1_ReadAfterWrite ==
    [][\A c \in Callers, t \in Targets, d \in Defs :
          (/\ ret'[c].op = "Get"
           /\ WrittenBy(PK(t), "put")
           /\ Get(c, t[1], t[2], d, "ok"))
          => /\ ret'[c].val = Stored(last[PK(t)].val)
             /\ last[PK(t)].val.t = "string" => ret'[c].val = last[PK(t)].val
             /\ last[PK(t)].val = I(7) => ret'[c].val = S(<<"7">>)
             /\ invoked'[c] = 0
             /\ store' = store]_vars

\* C1 witness: a Get has returned "7" for an entry written by Put(k, 7, 0)
C1_Witness ==
    \E c \in Callers :
        /\ ret[c].op = "Get"
        /\ ret[c].pk \in PhysKeys
        /\ WrittenBy(ret[c].pk, "put")
        /\ last[ret[c].pk].ttl = 0
        /\ last[ret[c].pk].val = I(7)
        /\ ret[c].val = S(<<"7">>)

\* C2: Remember and RememberForever have no mutual exclusion.  A miss runs
\* the callback and moves on to the Put even while another caller is between
\* its own miss and its Put on the same entry; every such Put overwrites
\* whatever the entry holds, the caller returns its own callback's result, and
\* the other callers in between are left where they are.
C2_RememberRace ==
    [][\A c \in Callers :
          /\ \A t \in Targets, f \in ConcCallbacks :
                (/\ pc'[c] = "remember_put"
                 /\ PK(t) \notin DOMAIN store
                 /\ \/ Remember(c, t[1], t[2], 60, f, "ok")
                    \/ RememberForever(c, t[1], t[2], f, "ok"))
                => /\ invoked'[c] = 1
                   /\ loc'[c].val = f.v
                   /\ loc'[c].pk = PK(t)
          /\ (pc[c] = "remember_put" /\ RememberPut(c, "ok"))
                => /\ loc[c].pk \in DOMAIN store'
                   /\ store'[loc[c].pk].val = Encode(loc[c].val)
                   /\ last'[loc[c].pk].val = loc[c].val
                   /\ ret'[c].val = loc[c].val
                   /\ ret'[c].raced = (loc[c].pk \in DOMAIN store)
                   /\ \A d \in Callers \ {c} : pc'[d] = pc[d] /\ loc'[d] = loc[d]]_vars

\* C2 witness: two callers have both run their callback for the same entry
\* and returned different values; the second Put found the entry of the
\* first and the store holds the value of the second
C2_Witness ==
    \E c \in Callers : \E d \in Callers \ {c} :
        /\ ret[c].op \in {"Remember", "RememberForever"}
        /\ ret[d].op \in {"Remember", "RememberForever"}
        /\ ret[c].pk = ret[d].pk
        /\ invoked[c] = 1
        /\ invoked[d] = 1
        /\ ret[c].val # ret[d].val
        /\ ret[d].raced
        /\ ret[d].pk \in DOMAIN store
        /\ WrittenBy(ret[d].pk, "compute")
        /\ last[ret[d].pk].val = ret[d].val
        /\ store[ret[d].pk].val = Encode(ret[d].val)

\* C3: the DEL of Pull removes whatever the entry holds when it runs, and
\* Pull returns what its GET fetched before: an entry that no GET has
\* returned is destroyed unseen.
C3_PullNotAtomic ==
    [][\A c \in Callers :
          (pc[c] = "pull_del" /\ PullDel(c, "ok"))
          => /\ loc[c].pk \notin DOMAIN store'
             /\ ret'[c].val = IF loc[c].err = "none" THEN loc[c].val ELSE loc[c].arg
             /\ (loc[c].pk \in DOMAIN store /\ ~last[loc[c].pk].seen)
                   => /\ last'[loc[c].pk].kind = "del"
                      /\ last'[loc[c].pk].val = last[loc[c].pk].val
                      /\ ~last'[loc[c].pk].seen]_vars

\* C3 witness: a Pull has deleted the value another caller Put between its
\* GET and its DEL; no GET had returned that value and the Pull returned
\* something else
C3_Witness ==
    \E c \in Callers : \E d \in Callers \ {c} :
        /\ ret[c].op = "Pull"
        /\ ret[c].raced
        /\ ret[d].op = "Put"
        /\ ret[d].pk = ret[c].pk
        /\ ret[c].pk \notin DOMAIN store
        /\ last[ret[c].pk].kind = "del"
        /\ last[ret[c].pk].how = "Pull"
        /\ last[ret[c].pk].val \in ConcVals
        /\ ~last[ret[c].pk].seen
        /\ ret[c].val # Stored(last[ret[c].pk].val)

\* the steps of Remember that C4 speaks of: the miss, the Put after it, and
\* the hit on an entry a Remember wrote with the value v, which returns v
\* (same) or the string the store holds for v
C4Steps(same) ==
    \A c \in Callers :
        /\ \A t \in Targets, ttl \in TTLs, f \in Callbacks :
              /\ (/\ pc'[c] = "remember_put"
                  /\ PK(t) \notin DOMAIN store
                  /\ Remember(c, t[1], t[2], ttl, f, "ok"))
                 => /\ invoked'[c] = 1
                    /\ loc'[c].val = f.v
                    /\ loc'[c].ttl = ttl
                    /\ loc'[c].pk = PK(t)
              /\ (/\ pc[c] = "idle"
                  /\ WrittenBy(PK(t), "compute")
                  /\ Remember(c, t[1], t[2], ttl, f, "ok"))
                 => /\ ret'[c].op = "Remember"
                    /\ ret'[c].val = IF same THEN last[PK(t)].val
                                       ELSE Stored(last[PK(t)].val)
                    /\ ~ret'[c].err
                    /\ invoked'[c] = 0
                    /\ store' = store
                    /\ pc'[c] = "idle"
        /\ (pc[c] = "remember_put" /\ RememberPut(c, "ok"))
              => /\ loc[c].pk \in DOMAIN store'
                 /\ store'[loc[c].pk] = [val |-> Encode(loc[c].val), ttl |-> loc[c].ttl]
                 /\ last'[loc[c].pk].kind = "set"
                 /\ last'[loc[c].pk].how = "compute"
                 /\ last'[loc[c].pk].val = loc[c].val
                 /\ ret'[c].val = loc[c].val
                 /\ ~ret'[c].err

\* C4 as stated: Remember on an absent key invokes compute, stores its
\* result and returns it; a following Remember returns that first result
\* and does not invoke its callback.
C4_Memoize_AsStated == [][C4Steps(TRUE)]_vars

\* C4 amended: the following Remember returns the string the store holds for
\* the first result (the result itself only when it is a string) and does
\* not invoke its callback.
C4_Memoize == [][C4Steps(FALSE)]_vars

\* C4 witness: a Remember has hit the entry a Remember computed as the int 7
\* and returned "7" without invoking its callback
C4_Witness ==
    \E c \in Callers :
        /\ ret[c].op = "Remember"
        /\ invoked[c] = 0
        /\ ret[c].pk \in PhysKeys
        /\ WrittenBy(ret[c].pk, "compute")
        /\ last[ret[c].pk].val = I(7)
        /\ ret[c].val = S(<<"7">>)

\* the steps C5 speaks of: Add on an absent key, Add on a present key, and
\* the Get of an entry an Add wrote with the value v1, which returns v1
\* (same) or the string the store holds for v1
C5Steps(same) ==
    \A c \in Callers, t \in Targets :
        /\ \A v \in Vals, ttl \in TTLs :
              /\ (/\ ret'[c].op = "Add"
                  /\ PK(t) \notin DOMAIN store
                  /\ Add(c, t[1], t[2], v, ttl, "ok"))
                 => /\ ret'[c].val = B(TRUE)
                    /\ PK(t) \in DOMAIN store'
                    /\ store'[PK(t)] = [val |-> Encode(v), ttl |-> ttl]
                    /\ last'[PK(t)].kind = "set"
                    /\ last'[PK(t)].how = "add"
                    /\ last'[PK(t)].val = v
              /\ (/\ ret'[c].op = "Add"
                  /\ PK(t) \in DOMAIN store
                  /\ Add(c, t[1], t[2], v, ttl, "ok"))
                 => /\ ret'[c].val = B(FALSE)
                    /\ store' = store
                    /\ last' = last
        /\ \A d \in Defs :
              (/\ ret'[c].op = "Get"
               /\ WrittenBy(PK(t), "add")
               /\ Get(c, t[1], t[2], d, "ok"))
              => ret'[c].val = IF same THEN last[PK(t)].val
                                 ELSE Stored(last[PK(t)].val)

\* C5 as stated: Add on an absent key returns true and stores v1; an Add on
\* the key while it is present returns false and leaves the entry, so that
\* Get still returns v1.
C5_SetIfAbsent_AsStated == [][C5Steps(TRUE)]_vars

\* C5 amended: ... so that Get still returns the string the store holds for
\* v1 (v1 itself only when v1 is a string).
C5_SetIfAbsent == [][C5Steps(FALSE)]_vars

\* C5 witness: a Get has returned "7" for the entry that Add(k, 7, ttl) wrote
C5_Witness ==
    \E c \in Callers :
        /\ ret[c].op = "Get"
        /\ ret[c].pk \in PhysKeys
        /\ WrittenBy(ret[c].pk, "add")
        /\ last[ret[c].pk].val = I(7)
        /\ ret[c].val = S(<<"7">>)

\* C6: with one caller, Pull on an existing key returns the stored value and
\* deletes the key, and a following Has returns false; Pull on a missing key
\* returns the default and leaves the store as it is.
C6_Pull ==
    [][\A c \in Callers :
          /\ \A t \in Targets, d \in Defs :
                (/\ pc'[c] = "pull_del"
                 /\ PullGet(c, t[1], t[2], d, "ok"))
                => /\ loc'[c].arg = d
                   /\ loc'[c].pk = PK(t)
                   /\ store' = store
                   /\ IF PK(t) \in DOMAIN store
                      THEN loc'[c].err = "none" /\ loc'[c].val = S(store[PK(t)].val)
                      ELSE loc'[c].err = "nil"
          /\ (pc[c] = "pull_del" /\ loc[c].err = "none" /\ PullDel(c, "ok"))
                => /\ ret'[c].val = loc[c].val
                   /\ loc[c].pk \notin DOMAIN store'
                   /\ last'[loc[c].pk].kind = "del"
                   /\ last'[loc[c].pk].how = "Pull"
          /\ (pc[c] = "pull_del" /\ loc[c].err = "nil" /\ PullDel(c, "ok"))
                => /\ ret'[c].val = loc[c].arg
                   /\ store' = store
          /\ \A t \in Targets, o \in ReadOutcomes :
                (/\ ret'[c].op = "Has"
                 /\ last[PK(t)].kind = "del"
                 /\ last[PK(t)].how = "Pull"
                 /\ Has(c, t[1], t[2], o))
                => ret'[c].val = B(FALSE)]_vars

\* C6 witness: Has has returned false for a key whose entry a Pull fetched
\* and deleted
C6_Witness ==
    \E c \in Callers :
        /\ ret[c].op = "Has"
        /\ ret[c].val = B(FALSE)
        /\ ret[c].pk \in PhysKeys
        /\ last[ret[c].pk].kind = "del"
        /\ last[ret[c].pk].how = "Pull"
        /\ last[ret[c].pk].val \in Vals
        /\ last[ret[c].pk].seen

\* C7: Has returns false for a key never written, true after a Put took
\* effect (when EXISTS itself succeeds), and false again after a Forget.
C7_HasLifecycle ==
    [][\A c \in Callers, t \in Targets, o \in ReadOutcomes :
          (ret'[c].op = "Has" /\ Has(c, t[1], t[2], o))
          => /\ last[PK(t)].kind = "none" => ret'[c].val = B(FALSE)
             /\ (WrittenBy(PK(t), "put") /\ o = "ok") => ret'[c].val = B(TRUE)
             /\ (last[PK(t)].kind = "del" /\ last[PK(t)].how = "Forget")
                   => ret'[c].val = B(FALSE)
             /\ store' = store]_vars

\* C7 witness: Has has returned false for a key that was written and then
\* removed by Forget
C7_Witness ==
    \E c \in Callers :
        /\ ret[c].op = "Has"
        /\ ret[c].val = B(FALSE)
        /\ ret[c].pk \in PhysKeys
        /\ last[ret[c].pk].kind = "del"
        /\ last[ret[c].pk].how = "Forget"
        /\ last[ret[c].pk].val \in Vals

\* C8: when GET fails (key missing or store error) Get returns the default,
\* or, the default being a producer function, invokes it once and returns
\* its result; when GET succeeds it returns the stored string and invokes
\* nothing.
C8_GetFallback ==
    [][\A c \in Callers, t \in Targets, d \in Defs, o \in ReadOutcomes :
          (ret'[c].op = "Get" /\ Get(c, t[1], t[2], d, o))
          => IF o = "ok" /\ PK(t) \in DOMAIN store
             THEN ret'[c].val = S(store[PK(t)].val) /\ invoked'[c] = 0
             ELSE IF d.t = "func"
             THEN ret'[c].val = d.v /\ invoked'[c] = 1
             ELSE ret'[c].val = d /\ invoked'[c] = 0]_vars

\* C8 witness: a Get on a missing key has invoked the producer once and
\* returned its result
C8_Witness ==
    \E c \in Callers :
        /\ ret[c].op = "Get"
        /\ ret[c].pk \in PhysKeys
        /\ ret[c].pk \notin DOMAIN store
        /\ invoked[c] = 1
        /\ ret[c].val = S(bob)

\* C9: a Flush that succeeds empties the whole store, whatever the prefix of
\* the adapter that issued it, and Has returns false for every key that was
\* written before it.
C9_FlushAll ==
    [][\A c \in Callers :
          /\ \A a \in Adapters :
                (ret'[c].op = "Flush" /\ Flush(c, a, "ok"))
                => /\ DOMAIN store' = {}
                   /\ ret'[c].val = B(TRUE)
                   /\ \A p \in PhysKeys :
                         last[p].kind # "none"
                         => last'[p].kind = "flush" /\ last'[p].how = a
          /\ \A t \in KeyTargets, o \in ReadOutcomes :
                (/\ ret'[c].op = "Has"
                 /\ last[PK(t)].kind = "flush"
                 /\ Has(c, t[1], t[2], o))
                => ret'[c].val = B(FALSE)]_vars

\* C9 witness: Has has returned false for "app:x", a key of adapter a1
\* outside the prefix of a2, after a Flush through a2
C9_Witness ==
    \E c \in Callers :
        /\ ret[c].op = "Has"
        /\ ret[c].val = B(FALSE)
        /\ ret[c].pk = PhysKey("a1", "x")
        /\ last[ret[c].pk].kind = "flush"
        /\ last[ret[c].pk].how = "a2"

\* C10: on the adapter with prefix "app:", Put("user:1", "alice", 60s) makes
\* the store key "app:user:1" hold "alice" and Get("user:1", "bob") return
\* "alice"; once the store has expired the key, Get("user:1", "bob") returns
\* "bob".
C10_PrefixAndExpiry ==
    [][/\ Prefix["a1"] = "app:"
       /\ PhysKey("a1", "user:1") = "app:user:1"
       /\ \A c \in Callers :
             /\ (ret'[c].op = "Put" /\ Put(c, "a1", "user:1", S(alice), 60, "ok"))
                   => /\ "app:user:1" \in DOMAIN store'
                      /\ store'["app:user:1"] = [val |-> alice, ttl |-> 60]
                      /\ ~ret'[c].err
             /\ (ret'[c].op = "Get" /\ Get(c, "a1", "user:1", S(bob), "ok"))
                   => /\ (WrittenBy("app:user:1", "put") /\ last["app:user:1"].val = S(alice))
                         => ret'[c].val = S(alice)
                      /\ last["app:user:1"].kind = "expire" => ret'[c].val = S(bob)]_vars

\* C10 witness: Get("user:1", "bob") has returned "bob" after the store
\* expired the "alice" that Put had written under "app:user:1"
C10_Witness ==
    \E c \in Callers :
        /\ ret[c].op = "Get"
        /\ ret[c].pk = "app:user:1"
        /\ ret[c].val = S(bob)
        /\ invoked[c] = 0
        /\ last["app:user:1"].kind = "expire"
        /\ last["app:user:1"].val = S(alice)

\* C11: an entry stored with duration zero (Put with 0, Forever,
\* RememberForever) has no expiry: the store never expires it, it leaves the
\* store only by a Forget, a Pull or a Flush, changes only by a write, and a
\* Get that succeeds returns it; Forever returns true exactly when its SET
\* returned no error.
C11_NoExpiry ==
    [][/\ \A c \in Callers, t \in Targets, v \in Vals, o \in Outcomes :
             /\ (ret'[c].op = "Forever" /\ Forever(c, t[1], t[2], v, o))
                   => /\ ret'[c].val = B(o = "ok")
                      /\ Applied(o) => /\ PK(t) \in DOMAIN store'
                                       /\ store'[PK(t)] = [val |-> Encode(v), ttl |-> 0]
                      /\ ~Applied(o) => store' = store
             /\ (ret'[c].op = "Put" /\ Applied(o) /\ Put(c, t[1], t[2], v, 0, o))
                   => store'[PK(t)] = [val |-> Encode(v), ttl |-> 0]
       /\ \A c \in Callers, t \in Targets, f \in Callbacks, o \in ReadOutcomes :
             (pc'[c] = "remember_put" /\ RememberForever(c, t[1], t[2], f, o))
             => loc'[c].ttl = 0
       /\ \A c \in Callers, o \in Outcomes :
             (pc[c] = "remember_put" /\ Applied(o) /\ RememberPut(c, o))
             => store'[loc[c].pk] = [val |-> Encode(loc[c].val), ttl |-> loc[c].ttl]
       /\ \A p \in PhysKeys :
             (p \in DOMAIN store /\ store[p].ttl = 0)
             => /\ ~Expire(p)
                /\ p \notin DOMAIN store' => last'[p].kind \in {"del", "flush"}
                /\ (p \in DOMAIN store' /\ store'[p] # store[p])
                      => last'[p].kind = "set" /\ store'[p].val = Encode(last'[p].val)
                /\ \A c \in Callers, t \in Targets, d \in Defs :
                      (PK(t) = p /\ ret'[c].op = "Get" /\ Get(c, t[1], t[2], d, "ok"))
                      => ret'[c].val = S(store[p].val) /\ store' = store]_vars

\* C11 witness: a Get has returned an entry that the store holds without
\* expiry
C11_Witness ==
    \E c \in Callers :
        /\ ret[c].op = "Get"
        /\ ret[c].pk \in DOMAIN store
        /\ store[ret[c].pk].ttl = 0
        /\ last[ret[c].pk].seen
        /\ ret[c].val = S(store[ret[c].pk].val)

\* C12: Has, Add, Forget, Flush and Forever return false whenever their
\* store command fails with an error; Add returns false as well when the key
\* is present, so that false from Add does not tell that the key exists.
C12_FalseOnError ==
    [][\A c \in Callers :
          /\ \A t \in Targets, o \in Outcomes \ {"ok"} :
                /\ (ret'[c].op = "Has" /\ Has(c, t[1], t[2], o))
                      => ret'[c].val = B(FALSE)
                /\ (ret'[c].op = "Forget" /\ Forget(c, t[1], t[2], o))
                      => ret'[c].val = B(FALSE)
                /\ \A v \in Vals :
                      (ret'[c].op = "Forever" /\ Forever(c, t[1], t[2], v, o))
                      => ret'[c].val = B(FALSE)
          /\ \A a \in Adapters, o \in Outcomes \ {"ok"} :
                (ret'[c].op = "Flush" /\ Flush(c, a, o)) => ret'[c].val = B(FALSE)
          /\ \A t \in Targets, v \in Vals, ttl \in TTLs, o \in Outcomes :
                (ret'[c].op = "Add" /\ Add(c, t[1], t[2], v, ttl, o))
                => /\ (o # "ok" \/ PK(t) \in DOMAIN store) => ret'[c].val = B(FALSE)
                   /\ (o = "ok" /\ PK(t) \notin DOMAIN store) => ret'[c].val = B(TRUE)]_vars

\* C12 witness: Add has returned false on a key that was never written,
\* because its SETNX failed before it reached the store
C12_Witness ==
    \E c \in Callers :
        /\ ret[c].op = "Add"
        /\ ret[c].val = B(FALSE)
        /\ ret[c].pk \in PhysKeys
        /\ ret[c].pk \notin DOMAIN store
        /\ last[ret[c].pk].kind = "none"

\* C13: GetBool returns true when the stored value is the string "true" or
\* "1", false when it is "false" or "0", and the default when the key is
\* absent.
C13_GetBool ==
    [][\A c \in Callers, t \in Targets, d \in BoolDefs :
          (ret'[c].op = "GetBool" /\ GetBool(c, t[1], t[2], d, "ok"))
          => /\ (PK(t) \in DOMAIN store /\ store[PK(t)].val \in {strTrue, <<"1">>})
                   => ret'[c].val = B(TRUE) /\ pc'[c] = "idle"
             /\ (PK(t) \in DOMAIN store /\ store[PK(t)].val \in {strFalse, <<"0">>})
                   => ret'[c].val = B(FALSE) /\ pc'[c] = "idle"
             /\ PK(t) \notin DOMAIN store
                   => ret'[c].val = B(d) /\ pc'[c] = "idle"]_vars

\* C13 witness: GetBool has returned true for the stored string "1"
C13_Witness ==
    \E c \in Callers :
        /\ ret[c].op = "GetBool"
        /\ ret[c].val = B(TRUE)
        /\ ret[c].pk \in DOMAIN store
        /\ store[ret[c].pk].val = <<"1">>
        /\ last[ret[c].pk].val = S(<<"1">>)

\* the decimal forms C14 is checked on, and strings that are no integer
C14Ints == (0 - 5) .. 12
C14NonNumeric == {<<"x", "1">>, alice, strTrue, strFalse, <<>>}

\* C14: GetInt returns the default when the key is absent or the stored
\* string is no base-10 integer, and the integer when the stored string is
\* the decimal form of one.
C14_GetInt ==
    [][\A c \in Callers, t \in Targets, d \in IntDefs :
          (ret'[c].op = "GetInt" /\ GetInt(c, t[1], t[2], d, "ok"))
          => /\ PK(t) \notin DOMAIN store => ret'[c].val = I(d)
             /\ (PK(t) \in DOMAIN store /\ store[PK(t)].val \in C14NonNumeric)
                   => ret'[c].val = I(d)
             /\ \A n \in C14Ints :
                   (PK(t) \in DOMAIN store /\ store[PK(t)].val = Itoa(n))
                   => ret'[c].val = I(n)
             /\ pc'[c] = "idle"]_vars

\* C14 witness: GetInt has returned -5 for the stored string "-5"
C14_Witness ==
    \E c \in Callers :
        /\ ret[c].op = "GetInt"
        /\ ret[c].val = I(0 - 5)
        /\ ret[c].pk \in DOMAIN store
        /\ store[ret[c].pk].val = <<"-", "5">>

\* the caller has returned from a call (or panicked in it)
Returned(c) == pc[c] \in {"idle", "panic"} /\ ret[c].op # "none"

\* C15 as stated: every call has issued exactly one store command, a Pull
\* two.
C15_OneCommand_AsStated ==
    \A c \in Callers :
        Returned(c) => Len(sent[c]) = IF ret[c].op = "Pull" THEN 2 ELSE 1

\* C15 amended: every call has issued exactly one store command, except a
\* Pull, which has issued two (GET, DEL), and a Remember or RememberForever
\* that invoked its callback, which has issued two (GET, SET); a Remember or
\* RememberForever that returned the cached value has issued one (GET).
C15_OneCommand ==
    \A c \in Callers :
        /\ Returned(c)
              => sent[c] =
                   CASE ret[c].op = "Pull" -> <<"GET", "DEL">>
                     [] ret[c].op \in {"Remember", "RememberForever"} ->
                          IF invoked[c] = 0 THEN <<"GET">> ELSE <<"GET", "SET">>
                     [] ret[c].op \in {"Get", "GetBool", "GetInt", "GetString"} -> <<"GET">>
                     [] ret[c].op = "Has" -> <<"EXISTS">>
                     [] ret[c].op \in {"Put", "Forever"} -> <<"SET">>
                     [] ret[c].op = "Add" -> <<"SETNX">>
                     [] ret[c].op = "Forget" -> <<"DEL">>
                     [] ret[c].op = "Flush" -> <<"FLUSHALL">>
        /\ pc[c] \in {"pull_del", "remember_put"} => sent[c] = <<"GET">>

\* C15 witness: a Remember has returned after it invoked its callback and
\* issued GET and SET
C15_Witness ==
    \E c \in Callers :
        /\ Returned(c)
        /\ ret[c].op = "Remember"
        /\ invoked[c] = 1
        /\ sent[c] = <<"GET", "SET">>

\* the callers whose last call was an Add on p that returned true
AddWinners(p) ==
    {c \in Callers : ret[c].op = "Add" /\ ret[c].pk = p /\ ret[c].val = B(TRUE)}

\* C16: of the Add calls that callers issue concurrently on a key that is
\* absent, with no store error and no delete or expiry, exactly one returns
\* true (the first to reach the store) and the store holds the value that
\* call passed; every other returns false and changes nothing.
C16_AddAtomic ==
    /\ [](\A p \in PhysKeys :
             /\ Cardinality(AddWinners(p)) <= 1
             /\ (\E c \in Callers : ret[c].op = "Add" /\ ret[c].pk = p)
                   => /\ p \in DOMAIN store
                      /\ WrittenBy(p, "add")
                      /\ store[p].val = Encode(last[p].val))
    /\ [][\A c \in Callers, t \in KeyTargets, v \in Vals :
             Add(c, t[1], t[2], v, 0, "ok")
             => IF PK(t) \notin DOMAIN store
                THEN /\ ret'[c].val = B(TRUE)
                     /\ store'[PK(t)] = [val |-> Encode(v), ttl |-> 0]
                     /\ last'[PK(t)].val = v
                     /\ \A d \in Callers \ {c} : d \notin AddWinners(PK(t))
                ELSE /\ ret'[c].val = B(FALSE)
                     /\ store' = store
                     /\ last' = last]_vars

\* C16 witness: two callers have called Add on the same key; one got true,
\* the other false, and the store holds the value of the first
C16_Witness ==
    \E c \in Callers : \E d \in Callers \ {c} :
        /\ ret[c].op = "Add" /\ ret[c].val = B(TRUE)
        /\ ret[d].op = "Add" /\ ret[d].val = B(FALSE)
        /\ ret[c].pk = ret[d].pk
        /\ ret[c].pk \in DOMAIN store
        /\ store[ret[c].pk].val = Encode(last[ret[c].pk].val)

\* what a Remember or RememberForever step on a present key leaves: the
\* cached value returned, no callback, the store as it was
C17Hit(c, op, pk) ==
    /\ invoked'[c] = 0
    /\ pc'[c] = "idle"
    /\ ret'[c] = Ret(op, pk, S(store[pk].val), FALSE)
    /\ store' = store

\* or, when the read failed: the callback invoked and its result about to be
\* Put over the entry
C17Recompute(c, pk, f) ==
    /\ invoked'[c] = 1
    /\ pc'[c] = "remember_put"
    /\ loc'[c].pk = pk
    /\ loc'[c].val = f.v

\* the steps C17 speaks of: Remember and RememberForever on a present key,
\* hitting on every read (always) or on the reads that succeed only, and the
\* Put that follows a failed read
C17Steps(always) ==
    \A c \in Callers :
        /\ \A t \in Targets, f \in Callbacks, o \in ReadOutcomes :
              /\ \A ttl \in TTLs :
                    (/\ pc[c] = "idle"
                     /\ PK(t) \in DOMAIN store
                     /\ Remember(c, t[1], t[2], ttl, f, o))
                    => IF always \/ o = "ok" THEN C17Hit(c, "Remember", PK(t))
                       ELSE C17Recompute(c, PK(t), f)
              /\ (/\ pc[c] = "idle"
                  /\ PK(t) \in DOMAIN store
                  /\ RememberForever(c, t[1], t[2], f, o))
                 => IF always \/ o = "ok" THEN C17Hit(c, "RememberForever", PK(t))
                    ELSE C17Recompute(c, PK(t), f)
        /\ \A o \in Outcomes :
              (/\ pc[c] = "remember_put"
               /\ ~always
               /\ loc[c].err = "fail"
               /\ Applied(o)
               /\ RememberPut(c, o))
              => store'[loc[c].pk] = [val |-> Encode(loc[c].val), ttl |-> loc[c].ttl]

\* C17 as stated: a Remember made while the key holds a value never invokes
\* compute and never overwrites the value, also when the read of the key
\* fails with a store error.
C17_NoRecompute_AsStated == [][C17Steps(TRUE)]_vars

\* C17 amended: a Remember made while the key holds a value, and whose read
\* of the key succeeds, returns the value, does not invoke compute and does
\* not write; when the read fails with a store error it invokes compute and
\* Puts the result over the value.
C17_NoRecompute == [][C17Steps(FALSE)]_vars

\* C17 witness: a Remember has invoked its callback after a failed read of a
\* key that is present, and is about to Put the result over the entry
C17_Witness ==
    \E c \in Callers :
        /\ pc[c] = "remember_put"
        /\ invoked[c] = 1
        /\ loc[c].err = "fail"
        /\ loc[c].pk \in DOMAIN store
        /\ store[loc[c].pk].val # Encode(loc[c].val)

\* every physical key but p is in the store as it was
C18Frame(p) ==
    \A q \in PhysKeys \ {p} :
        /\ (q \in DOMAIN store') = (q \in DOMAIN store)
        /\ q \in DOMAIN store => store'[q] = store[q]

\* C18: Put, Add, Forever, Forget, Pull, Remember and RememberForever with
\* the logical key k on an adapter with prefix p change at most the entry at
\* p+k; the pairs ("app:", "user:1") and ("app:u", "ser:1"), whose
\* concatenations are equal, address the same entry.
C18_KeyScoped ==
    [][/\ PK(<<"a1", "user:1">>) = PK(<<"a2", "ser:1">>)
       /\ PK(<<"a1", "user:1">>) # PK(<<"a1", "x">>)
       /\ \A c \in Callers :
             /\ \A t \in KeyTargets :
                   /\ \A v \in KeyVals :
                         /\ \A ttl \in TTLs :
                               Put(c, t[1], t[2], v, ttl, "ok")
                               => C18Frame(PK(t)) /\ store'[PK(t)].val = Encode(v)
                         /\ Add(c, t[1], t[2], v, 0, "ok") => C18Frame(PK(t))
                         /\ Forever(c, t[1], t[2], v, "ok")
                               => C18Frame(PK(t)) /\ store'[PK(t)].val = Encode(v)
                   /\ Forget(c, t[1], t[2], "ok")
                         => C18Frame(PK(t)) /\ PK(t) \notin DOMAIN store'
                   /\ PullGet(c, t[1], t[2], Nil, "ok")
                         => store' = store /\ loc'[c].pk = PK(t)
                   /\ \A f \in KeyCallbacks :
                         /\ Remember(c, t[1], t[2], 60, f, "ok")
                               => /\ store' = store
                                  /\ pc'[c] = "remember_put" => loc'[c].pk = PK(t)
                         /\ RememberForever(c, t[1], t[2], f, "ok")
                               => /\ store' = store
                                  /\ pc'[c] = "remember_put" => loc'[c].pk = PK(t)
             /\ (pc[c] = "pull_del" /\ PullDel(c, "ok"))
                   => C18Frame(loc[c].pk) /\ loc[c].pk \notin DOMAIN store'
             /\ (pc[c] = "remember_put" /\ RememberPut(c, "ok"))
                   => /\ C18Frame(loc[c].pk)
                      /\ store'[loc[c].pk].val = Encode(loc[c].val)]_vars

\* C18 witness: a Forget of "x" through the adapter with prefix "app:" has
\* removed "app:x" and left "app:user:1", a key under the same prefix, in
\* the store
C18_Witness ==
    \E c \in Callers :
        /\ ret[c].op = "Forget"
        /\ ret[c].pk = PhysKey("a1", "x")
        /\ last[ret[c].pk].kind = "del"
        /\ last[ret[c].pk].val # Nil
        /\ ret[c].pk \notin DOMAIN store
        /\ PhysKey("a2", "ser:1") \in DOMAIN store

\* C19: Get, GetBool, GetInt, GetString and Has never change the store, on
\* any path; a Get that fell back to its default or invoked its producer on
\* an absent key wrote nothing, so that the Has that follows returns false.
C19_ReadsPure ==
    [][\A c \in Callers, t \in Targets :
          /\ \A o \in ReadOutcomes :
                /\ \A d \in Defs :
                      Get(c, t[1], t[2], d, o)
                      => /\ store' = store
                         /\ PK(t) \notin DOMAIN store
                               => /\ PK(t) \notin DOMAIN store'
                                  /\ ret'[c].val = IF d.t = "func" THEN d.v ELSE d
                /\ GetBool(c, t[1], t[2], FALSE, o) => store' = store
                /\ GetInt(c, t[1], t[2], 7, o) => store' = store
                /\ GetString(c, t[1], t[2], bob, o) => store' = store
                /\ Has(c, t[1], t[2], o) => store' = store
          /\ (/\ ret[c].op = "Get"
              /\ ret[c].pk = PK(t)
              /\ last[PK(t)].kind # "set"
              /\ Has(c, t[1], t[2], "ok"))
             => ret'[c].val = B(FALSE)]_vars

\* C19 witness: a Get has invoked its producer on a key that is absent, and
\* the key is absent still
C19_Witness ==
    \E c \in Callers :
        /\ ret[c].op = "Get"
        /\ invoked[c] = 1
        /\ ret[c].val = S(bob)
        /\ ret[c].pk \in PhysKeys
        /\ ret[c].pk \notin DOMAIN store
        /\ last[ret[c].pk].kind # "set"

\* C20: of the typed accessors only GetBool faults on its type assertion,
\* and exactly when GET succeeded and the stored string is none of "1",
\* "true", "0", "false" (the default is not returned then); GetInt and
\* GetString return an int and a string for every store content, every
\* outcome of GET and every default.
C20_OnlyGetBoolFaults ==
    [][\A c \in Callers, t \in Targets, o \in ReadOutcomes :
          /\ \A d \in BoolDefs :
                (ret'[c].op = "GetBool" /\ GetBool(c, t[1], t[2], d, o))
                => /\ (pc'[c] = "panic")
                         = (/\ o = "ok"
                            /\ PK(t) \in DOMAIN store
                            /\ store[PK(t)].val \notin {<<"1">>, strTrue, <<"0">>, strFalse})
                   /\ IF pc'[c] = "panic" THEN ret'[c].val = Panic
                      ELSE pc'[c] = "idle" /\ ret'[c].val.t = "bool"
          /\ \A d \in IntDefs :
                (ret'[c].op = "GetInt" /\ GetInt(c, t[1], t[2], d, o))
                => pc'[c] = "idle" /\ ret'[c].val.t = "int"
          /\ \A d \in StrDefs :
                (ret'[c].op = "GetString" /\ GetString(c, t[1], t[2], d, o))
                => pc'[c] = "idle" /\ ret'[c].val.t = "string"]_vars

\* C20 witness: GetBool has panicked on the stored string "alice"
C20_Witness ==
    \E c \in Callers :
        /\ pc[c] = "panic"
        /\ ret[c].op = "GetBool"
        /\ ret[c].val = Panic
        /\ ret[c].pk \in DOMAIN store
        /\ store[ret[c].pk].val = alice

====
